---- MODULE Spec2Model ----
(***************************************************************************)
(* A model of the DailyNews article workflow: the article table, the two   *)
(* subscription tables, the journalist / editor / reader views that change *)
(* them, the post_save notification handler, the subscription API, the     *)
(* reader's read views and the registration of users into groups.          *)
(*                                                                         *)
(* Each view is one action: decorators, early returns, form validation,    *)
(* Article.save and the post_save signal handler included.  The response   *)
(* of the last request and what its signal handler did are kept in `last`. *)
(* Fields no view decision reads (creation_date, last_edited_date,         *)
(* featured_image) are left out of the article record.                     *)
(***************************************************************************)
EXTENDS Integers, FiniteSets, Sequences, TLC

\* ---------------------------------------------------------------- bounds
MaxArticles == 2      \* primary keys the article table hands out
MaxTime     == 1      \* distinct values timezone.now() takes
MaxSubs     == 2      \* rows held by the two subscription tables together
MaxUsers    == 3      \* users that register during a run

\* ---------------------------------------------------------------- values
None   == "None"      \* a NULL foreign key / a missing request parameter
NoDate == 0           \* publication_date IS NULL
NoPk   == 0           \* the URL carries no pk (article/create/)

Times == 1..MaxTime

\* models.py USER_ROLES
USER_ROLES == {"READER", "JOURNALIST", "EDITOR"}

\* models.py Article.STATUS_CHOICES
STATUS_CHOICES == {"DRAFT", "AWAITING_REVIEW", "REJECTED", "PUBLISHED"}

\* models.py Publisher.ensure_publishers_exist: the two publishers, by pk order
Publishers == {"p1", "p2"}
PublisherOrder == <<"p1", "p2">>

\* the registered users (CustomUser rows) and their role column
Users == {"r1", "j1", "j2", "e1"}
role == [u \in Users |->
           CASE u = "r1" -> "READER"
             [] u = "j1" -> "JOURNALIST"
             [] u = "j2" -> "JOURNALIST"
             [] u = "e1" -> "EDITOR"]

\* CustomUser.publishers (staff affiliation), request.user.publishers.all()
publishers == [u \in Users |->
           CASE u = "r1" -> {}
             [] u = "j1" -> {"p1"}
             [] u = "j2" -> {"p1", "p2"}
             [] u = "e1" -> {"p1"}]

\* CustomUser.email
email == [u \in Users |->
           CASE u = "r1" -> "r1@x"
             [] u = "j1" -> "j1@x"
             [] u = "j2" -> "j2@x"
             [] u = "e1" -> "e1@x"]

\* views.py access control helpers
is_reader(u)          == role[u] = "READER"
is_journalist(u)      == role[u] = "JOURNALIST"
is_editor(u)          == role[u] = "EDITOR"
is_publisher_staff(u) == role[u] \in {"JOURNALIST", "EDITOR"}

\* ------------------------------------------------------------ user groups
\* signals.py create_initial_groups GROUPS_PERMISSIONS: the groups it creates
GROUPS_PERMISSIONS == {"Editor", "Journalist", "Reader"}

\* dict(USER_ROLES): the display name of a role key
role_map == [r \in USER_ROLES |->
           CASE r = "READER" -> "Reader"
             [] r = "JOURNALIST" -> "Journalist"
             [] r = "EDITOR" -> "Editor"]

VARIABLES
  articles,     \* the Article table: pk -> row, for the rows that exist
  nextPk,       \* the next primary key the Article table hands out
  jsubs,        \* JournalistSubscription rows  <<reader, journalist>>
  psubs,        \* PublisherSubscription rows   <<reader, publisher>>
  x_token,      \* settings.X_USER_ACCESS_TOKEN is configured
  groups,       \* the Group table: the names of the groups that exist
  accounts,     \* the users registered since: pk -> [role, groups]
  last          \* the last request: view, requester, pk, response, signal

vars == <<articles, nextPk, jsubs, psubs, x_token, groups, accounts, last>>

Pks == 1..MaxArticles

\* ------------------------------------------------------------ Article.save
\* save() that never approves
Article_save_NeverApproves(a, now) ==
  IF a.status = "PUBLISHED"
    THEN [a EXCEPT !.publication_date = IF @ = NoDate THEN now ELSE @]
    ELSE [a EXCEPT !.is_approved = FALSE]

\* save() that leaves publication_date as it finds it
Article_save_NoDate(a, now) ==
  IF a.status = "PUBLISHED"
    THEN [a EXCEPT !.is_approved = TRUE]
    ELSE [a EXCEPT !.is_approved = FALSE]

\* models.py Article.save: is_approved follows status; publication_date is
\* filled in when the row is PUBLISHED and has none.
Article_save(a, now) ==
  IF a.status = "PUBLISHED"
    THEN [a EXCEPT !.is_approved = TRUE,
                   !.publication_date = IF @ = NoDate THEN now ELSE @]
    ELSE [a EXCEPT !.is_approved = FALSE]

\* views.py article_create_edit: Article(author=request.user, publisher=None)
\* with the model's field defaults
NewArticle(u) ==
  [title |-> "", body |-> "", author |-> u, publisher |-> None,
   editor |-> None, status |-> "DRAFT", is_approved |-> FALSE,
   publication_date |-> NoDate]

\* ------------------------------------------------------------ ArticleForm
\* what a POST can carry for the form's fields (featured_image left out)
FormContents == {<<"t1", "b1">>, <<"t2", "b2">>, <<"", "b1">>}
FormInputs ==
  {[title |-> c[1], body |-> c[2], publisher |-> p] :
     c \in FormContents, p \in Publishers \cup {None}}

\* forms.py ArticleForm.__init__: the publisher choices are those of the
\* instance's author
PublisherChoices(instance) == publishers[instance.author]

\* ArticleForm.is_valid: title and body are required, publisher is optional
\* and must be one of the choices
ArticleForm_is_valid(form, instance) ==
  /\ form.title # ""
  /\ form.body # ""
  /\ form.publisher = None \/ form.publisher \in PublisherChoices(instance)

\* ArticleForm.save(commit=False): the form's fields onto the instance
ArticleForm_save(form, instance) ==
  [instance EXCEPT !.title = form.title, !.body = form.body,
                   !.publisher = form.publisher]

\* ------------------------------------------------------ post_save handler
NoSignal == [ran |-> FALSE, emails |-> {}, tweet |-> "none", error |-> FALSE]

\* signals.py handle_article_publication_and_sharing
handle_article_publication_and_sharing(instance, created) ==
  IF ~(~created /\ instance.status = "PUBLISHED")
    THEN NoSignal
    ELSE
      LET journalist_subscribers ==
            {email[s[1]] : s \in {t \in jsubs : t[2] = instance.author}}
          publisher_subscribers ==
            {email[s[1]] : s \in {t \in psubs : t[2] = instance.publisher}}
          recipient_list == journalist_subscribers \cup publisher_subscribers
      IN
        IF recipient_list # {} /\ instance.publisher = None
          \* instance.publisher.name raises while the message is built
          THEN [ran |-> TRUE, emails |-> {}, tweet |-> "none", error |-> TRUE]
        ELSE IF ~x_token
          THEN [ran |-> TRUE, emails |-> recipient_list, tweet |-> "none",
                error |-> FALSE]
        ELSE IF instance.publisher = None
          \* instance.publisher.name raises while the tweet text is built
          THEN [ran |-> TRUE, emails |-> recipient_list, tweet |-> "none",
                error |-> TRUE]
        ELSE [ran |-> TRUE, emails |-> recipient_list, tweet |-> "posted",
              error |-> FALSE]

\* ------------------------------------------------------------ the request
Request(op, u, pk, resp) ==
  [op |-> op, user |-> u, pk |-> pk, resp |-> resp, saved |-> FALSE,
   created |-> FALSE, action |-> None, selected |-> None,
   signal |-> NoSignal, data |-> {}, feed |-> <<>>, method |-> None]

\* a request whose view saved an article (every view saves on POST only):
\* the row's post_save handler ran.
\* action is the POST's action, selected the publisher_to_submit it read.
Saved(op, u, pk, created, row, action, selected) ==
  LET sig == handle_article_publication_and_sharing(row, created) IN
  [op |-> op, user |-> u, pk |-> pk,
   resp |-> IF sig.error THEN "500" ELSE "302_saved",
   saved |-> TRUE, created |-> created, action |-> action,
   selected |-> selected, signal |-> sig, data |-> {}, feed |-> <<>>,
   method |-> "POST"]

\* the subscription tables the workflow runs over: reader r1 follows
\* journalist j1 and publisher p1
InitialJournalistSubs == {<<"r1", "j1">>}
InitialPublisherSubs  == {<<"r1", "p1">>}

Init ==
  /\ articles = [p \in {} |-> NewArticle("j1")]
  /\ nextPk = 1
  /\ jsubs = InitialJournalistSubs
  /\ psubs = InitialPublisherSubs
  /\ x_token \in BOOLEAN
  /\ groups = GROUPS_PERMISSIONS
  /\ accounts = << >>
  /\ last = Request("none", None, NoPk, "none")

\* the Article table with one row written / one row removed
Store(pk, row) == [p \in DOMAIN articles \cup {pk} |->
                     IF p = pk THEN row ELSE articles[p]]
Remove(pk)     == [p \in DOMAIN articles \ {pk} |-> articles[p]]

Unchanged == UNCHANGED <<articles, nextPk, jsubs, psubs, x_token, groups, accounts>>

\* --------------------------------------------------- article_create_edit
\* the selected publisher looked up among all publishers, not the affiliated
CreateEditDecision_AnyPublisher(u, article, action, publisher_to_submit) ==
  IF action = "publish_independent"
    THEN [status |-> "PUBLISHED", publisher |-> None]
  ELSE IF action = "submit_publisher"
    THEN IF publisher_to_submit # None /\ publisher_to_submit \in Publishers
           THEN [status |-> "AWAITING_REVIEW",
                 publisher |-> publisher_to_submit]
           ELSE [status |-> "DRAFT", publisher |-> None]
  ELSE [status |-> "DRAFT", publisher |-> article.publisher]

\* views.py article_create_edit, lines 543-579: the status and publisher the
\* POST's action asks for.  affiliated_publishers.get(pk=publisher_id) finds
\* only a publisher the requester is affiliated with.
CreateEditDecision(u, article, action, publisher_to_submit) ==
  IF action = "publish_independent"
    THEN [status |-> "PUBLISHED", publisher |-> None]
  ELSE IF action = "submit_publisher"
    THEN IF publisher_to_submit # None
                /\ publisher_to_submit \in publishers[u]
           THEN [status |-> "AWAITING_REVIEW",
                 publisher |-> publisher_to_submit]
           ELSE [status |-> "DRAFT", publisher |-> None]
  ELSE [status |-> "DRAFT", publisher |-> article.publisher]

Methods == {"GET", "POST"}
CreateEditActions == {"publish_independent", "submit_publisher", "draft"}

\* the author check dropped
IsAuthor_Anyone(u, article) == TRUE

\* views.py article_create_edit, line 524: the requester wrote the article
IsAuthor(u, article) == article.author = u

\* FORBIDDEN_EDIT_STATUSES with the pending state forgotten
FORBIDDEN_EDIT_STATUSES_NoReview == {"PUBLISHED", "REJECTED"}

\* views.py FORBIDDEN_EDIT_STATUSES
FORBIDDEN_EDIT_STATUSES == {"PUBLISHED", "REJECTED", "AWAITING_REVIEW"}

\* views.py article_create_edit, lines 583-595: the row the view saves
CreateEditRow(u, article, form, decision, now) ==
  LET new_article == ArticleForm_save(form, article)
      set == [new_article EXCEPT
                !.status = decision.status,
                !.publisher = decision.publisher,
                !.publication_date =
                   IF decision.status = "PUBLISHED" THEN now ELSE @,
                !.author = u]
  IN Article_save(set, now)

article_create_edit(u, pk, inp) ==
  LET op == "article_create_edit" IN
  IF ~is_journalist(u)
    THEN /\ last' = Request(op, u, NoPk, "302_login")
         /\ Unchanged
  ELSE IF pk # NoPk /\ pk \notin DOMAIN articles
    THEN /\ last' = Request(op, u, pk, "404")
         /\ Unchanged
  ELSE IF pk # NoPk /\ ~IsAuthor(u, articles[pk])
    THEN /\ last' = Request(op, u, pk, "302_not_author")
         /\ Unchanged
  ELSE IF pk # NoPk /\ articles[pk].status \in FORBIDDEN_EDIT_STATUSES
    THEN /\ last' = Request(op, u, pk, "302_forbidden_status")
         /\ Unchanged
  ELSE
    LET article == IF pk # NoPk THEN articles[pk] ELSE NewArticle(u) IN
    \E method \in inp.methods :
      IF method # "POST"
        THEN /\ last' = Request(op, u, pk, "200_form")
             /\ Unchanged
      ELSE
        \E action \in inp.actions,
           publisher_to_submit \in Publishers \cup {None},
           form \in inp.forms, now \in Times :
          IF ~ArticleForm_is_valid(form, article)
            THEN /\ last' = Request(op, u, pk, "200_form_errors")
                 /\ Unchanged
            ELSE
              LET decision == CreateEditDecision(u, article, action,
                                                 publisher_to_submit)
                  row == CreateEditRow(u, article, form, decision, now)
                  key == IF pk # NoPk THEN pk ELSE nextPk
              IN /\ pk = NoPk => nextPk <= MaxArticles
                 /\ articles' = Store(key, row)
                 /\ nextPk' = IF pk = NoPk THEN nextPk + 1 ELSE nextPk
                 /\ last' = Saved(op, u, key, pk = NoPk, row, action,
                                 IF action = "submit_publisher"
                                   THEN publisher_to_submit ELSE None)
                 /\ UNCHANGED <<jsubs, psubs, x_token, groups, accounts>>

\* everything a request to article_create_edit can carry
CreateEditInputs ==
  [methods |-> Methods, actions |-> CreateEditActions, forms |-> FormInputs]

ArticleCreateEdit ==
  \E u \in Users, pk \in Pks \cup {NoPk} :
    article_create_edit(u, pk, CreateEditInputs)

\* --------------------------------------------------------- article_editor
\* request.user.publishers.first(): the affiliated publisher of lowest pk
first(S) ==
  IF S = {} THEN None
  ELSE PublisherOrder[CHOOSE i \in 1..Len(PublisherOrder) :
         /\ PublisherOrder[i] \in S
         /\ \A j \in 1..(i - 1) : PublisherOrder[j] \notin S]

EditorActions == {"delete", "publish", "save"}

\* views.py article_editor, lines 755-769: the row the editor's POST builds
EditorRow(u, article, form, action, now) ==
  LET edited == [ArticleForm_save(form, article) EXCEPT !.editor = u] IN
  IF action = "publish"
    THEN [edited EXCEPT
            !.status = "PUBLISHED",
            !.publication_date = now,
            !.publisher = IF @ = None THEN first(publishers[u]) ELSE @]
    ELSE edited

\* the access check letting an article without publisher through
EditorMayReview_Unassigned(u, article) ==
  article.publisher = None \/ article.publisher \in publishers[u]

\* views.py article_editor, line 736: the access control check
EditorMayReview(u, article) == article.publisher \in publishers[u]

article_editor(u, pk, inp) ==
  LET op == "article_editor" IN
  IF ~is_editor(u)
    THEN /\ last' = Request(op, u, NoPk, "302_login")
         /\ Unchanged
  ELSE IF pk \notin DOMAIN articles
    THEN /\ last' = Request(op, u, pk, "404")
         /\ Unchanged
  ELSE IF ~EditorMayReview(u, articles[pk])
    THEN /\ last' = Request(op, u, pk, "403")
         /\ Unchanged
  ELSE
    \E method \in inp.methods :
      IF method # "POST"
        THEN /\ last' = Request(op, u, pk, "200_form")
             /\ Unchanged
      ELSE
        \E action \in inp.actions :
          IF action = "delete"
            THEN /\ articles' = Remove(pk)
                 /\ last' = Request(op, u, pk, "302_deleted")
                 /\ UNCHANGED <<nextPk, jsubs, psubs, x_token, groups, accounts>>
          ELSE
            \E form \in inp.forms, now \in Times :
              IF ~ArticleForm_is_valid(form, articles[pk])
                THEN /\ last' = Request(op, u, pk, "200_form_errors")
                     /\ Unchanged
              ELSE
                LET row == EditorRow(u, articles[pk], form, action, now) IN
                IF action = "publish" /\ row.publisher = None
                  THEN /\ last' = Request(op, u, pk, "302_no_publisher")
                       /\ Unchanged
                  ELSE
                    LET saved == Article_save(row, now) IN
                    /\ articles' = Store(pk, saved)
                    /\ last' = Saved(op, u, pk, FALSE, saved, action, None)
                    /\ UNCHANGED <<nextPk, jsubs, psubs, x_token, groups, accounts>>

\* everything a request to article_editor can carry
EditorInputs ==
  [methods |-> Methods, actions |-> EditorActions, forms |-> FormInputs]

ArticleEditor ==
  \E u \in Users, pk \in Pks : article_editor(u, pk, EditorInputs)

\* --------------------------------------------------------- article_delete
\* the list with the finalized status PUBLISHED let in
ALLOW_DELETION_STATUSES_Published ==
  {"DRAFT", "REVISION", "AWAITING_REVIEW", "PUBLISHED"}

\* views.py ALLOW_DELETION_STATUSES
ALLOW_DELETION_STATUSES == {"DRAFT", "REVISION", "AWAITING_REVIEW"}

article_delete(u, pk) ==
  LET op == "article_delete" IN
  IF ~is_publisher_staff(u)
    THEN /\ last' = Request(op, u, NoPk, "302_login")
         /\ Unchanged
  ELSE IF pk \notin DOMAIN articles
    THEN /\ last' = Request(op, u, pk, "404")
         /\ Unchanged
  ELSE
    LET article == articles[pk]
        is_author == article.author = u
        is_affiliated_editor ==
          role[u] = "EDITOR" /\ article.publisher \in publishers[u]
    IN
      IF ~(is_author \/ is_affiliated_editor)
        THEN /\ last' = Request(op, u, pk, "302_no_permission")
             /\ Unchanged
      ELSE IF article.status \notin ALLOW_DELETION_STATUSES
        THEN /\ last' = Request(op, u, pk, "302_finalized")
             /\ Unchanged
      ELSE
        \E method \in Methods :
          IF method = "POST"
            THEN /\ articles' = Remove(pk)
                 /\ last' = [Request(op, u, pk, "302_deleted") EXCEPT
                               !.method = method]
                 /\ UNCHANGED <<nextPk, jsubs, psubs, x_token, groups, accounts>>
            ELSE /\ last' = [Request(op, u, pk, "200_confirm") EXCEPT
                               !.method = method]
                 /\ Unchanged

ArticleDelete == \E u \in Users, pk \in Pks : article_delete(u, pk)

\* ----------------------------------------------------- article_journalist
article_journalist(u, pk) ==
  LET op == "article_journalist" IN
  IF ~is_journalist(u)
    THEN /\ last' = Request(op, u, NoPk, "302_login")
         /\ Unchanged
  ELSE IF pk \notin DOMAIN articles \/ articles[pk].author # u
    THEN /\ last' = Request(op, u, pk, "404")
         /\ Unchanged
  ELSE
    \E method \in Methods, delete \in BOOLEAN :
      IF method = "POST" /\ delete
        THEN /\ articles' = Remove(pk)
             /\ last' = Request(op, u, pk, "302_deleted")
             /\ UNCHANGED <<nextPk, jsubs, psubs, x_token, groups, accounts>>
        ELSE /\ last' = Request(op, u, pk, "200_article")
             /\ Unchanged

ArticleJournalist == \E u \in Users, pk \in Pks : article_journalist(u, pk)

\* ---------------------------------------------------- subscription views
Journalists == {u \in Users : role[u] = "JOURNALIST"}

SubRows == Cardinality(jsubs) + Cardinality(psubs)

\* JournalistSubscription.objects.get_or_create(reader, journalist), and
\* subscription.delete() when the row was already there
ToggleJournalist(op, u, journalist) ==
  IF <<u, journalist>> \in jsubs
    THEN /\ jsubs' = jsubs \ {<<u, journalist>>}
         /\ last' = Request(op, u, NoPk, "302_unsubscribed")
         /\ UNCHANGED <<articles, nextPk, psubs, x_token, groups, accounts>>
    ELSE /\ SubRows < MaxSubs
         /\ jsubs' = jsubs \cup {<<u, journalist>>}
         /\ last' = Request(op, u, NoPk, "302_subscribed")
         /\ UNCHANGED <<articles, nextPk, psubs, x_token, groups, accounts>>

\* PublisherSubscription.objects.get_or_create(reader, publisher), and
\* subscription.delete() when the row was already there
TogglePublisher(op, u, publisher) ==
  IF <<u, publisher>> \in psubs
    THEN /\ psubs' = psubs \ {<<u, publisher>>}
         /\ last' = Request(op, u, NoPk, "302_unsubscribed")
         /\ UNCHANGED <<articles, nextPk, jsubs, x_token, groups, accounts>>
    ELSE /\ SubRows < MaxSubs
         /\ psubs' = psubs \cup {<<u, publisher>>}
         /\ last' = Request(op, u, NoPk, "302_subscribed")
         /\ UNCHANGED <<articles, nextPk, jsubs, x_token, groups, accounts>>

\* views.py toggle_subscription (login_required only)
toggle_subscription(u, method, item_id, item_type) ==
  LET op == "toggle_subscription" IN
  IF method # "POST"
    THEN /\ last' = Request(op, u, NoPk, "302_list")
         /\ Unchanged
  ELSE IF item_id = None \/ item_type \notin {"journalist", "publisher"}
    THEN /\ last' = Request(op, u, NoPk, "302_invalid")
         /\ Unchanged
  ELSE IF item_type = "journalist"
    THEN IF item_id \notin Users
           \* get_object_or_404 raises; the view's except clause catches it
           THEN /\ last' = Request(op, u, NoPk, "302_error")
                /\ Unchanged
         ELSE IF role[item_id] # "JOURNALIST"
           THEN /\ last' = Request(op, u, NoPk, "302_not_journalist")
                /\ Unchanged
         ELSE ToggleJournalist(op, u, item_id)
  ELSE IF item_id \notin Publishers
    THEN /\ last' = Request(op, u, NoPk, "302_error")
         /\ Unchanged
  ELSE TogglePublisher(op, u, item_id)

\* views.py subscribe_journalist (reader only)
subscribe_journalist(u, pk) ==
  LET op == "subscribe_journalist" IN
  IF ~is_reader(u)
    THEN /\ last' = Request(op, u, NoPk, "302_login")
         /\ Unchanged
  ELSE IF pk \notin Users \/ role[pk] # "JOURNALIST"
    THEN /\ last' = Request(op, u, NoPk, "404")
         /\ Unchanged
  ELSE ToggleJournalist(op, u, pk)

\* views.py subscribe_publisher (reader only)
subscribe_publisher(u, pk) ==
  LET op == "subscribe_publisher" IN
  IF ~is_reader(u)
    THEN /\ last' = Request(op, u, NoPk, "302_login")
         /\ Unchanged
  ELSE IF pk \notin Publishers
    THEN /\ last' = Request(op, u, NoPk, "404")
         /\ Unchanged
  ELSE TogglePublisher(op, u, pk)

ItemIds == Users \cup Publishers \cup {None}

\* ------------------------------------------------------ subscription API
\* get_queryset without the status filter
get_queryset_AnyStatus(client_user) ==
  LET subscribed_journalists == {s[2] : s \in {t \in jsubs : t[1] = client_user}}
      subscribed_publishers  == {s[2] : s \in {t \in psubs : t[1] = client_user}}
  IN {pk \in DOMAIN articles :
        \/ articles[pk].author \in subscribed_journalists
        \/ articles[pk].publisher \in subscribed_publishers}

\* api_views.py ArticleSubscriptionAPIView.get_queryset: the pks it returns
get_queryset(client_user) ==
  LET subscribed_journalists == {s[2] : s \in {t \in jsubs : t[1] = client_user}}
      subscribed_publishers  == {s[2] : s \in {t \in psubs : t[1] = client_user}}
      published == {pk \in DOMAIN articles : articles[pk].status = "PUBLISHED"}
  IN {pk \in published :
        \/ articles[pk].author \in subscribed_journalists
        \/ articles[pk].publisher \in subscribed_publishers}

\* permission_classes = [IsAuthenticated] over TokenAuthentication and
\* BasicAuthentication: who the credentials authenticate, None for nobody
Credentials == Users \cup {None, "bad_token"}
Authenticate(credentials) ==
  IF credentials \in Users THEN credentials ELSE None

\* the view without permission_classes: everybody is answered
api_subscribed_articles_Open(credentials) ==
  /\ last' = [Request("api_subscribed_articles", Authenticate(credentials),
                      NoPk, "200") EXCEPT
                !.data = get_queryset(Authenticate(credentials))]
  /\ Unchanged

\* GET api/articles/
api_subscribed_articles(credentials) ==
  LET op == "api_subscribed_articles"
      user == Authenticate(credentials)
  IN
  IF user = None
    THEN /\ last' = Request(op, None, NoPk, "401")
         /\ Unchanged
    ELSE /\ last' = [Request(op, user, NoPk, "200") EXCEPT
                       !.data = get_queryset(user)]
         /\ Unchanged

ApiSubscribedArticles ==
  \E credentials \in Credentials : api_subscribed_articles(credentials)

\* ------------------------------------------------------------ reader views
\* Article.objects.filter(status='PUBLISHED')
Published == {pk \in DOMAIN articles : articles[pk].status = "PUBLISHED"}

\* order_by('-publication_date'): the orders in which the database may hand
\* out the rows of S, rows of equal date in any order
OrderByDateDesc(S) ==
  {seq \in [1..Cardinality(S) -> S] :
     /\ \A i, j \in 1..Cardinality(S) : i # j => seq[i] # seq[j]
     /\ \A i, j \in 1..Cardinality(S) :
          i < j => articles[seq[i]].publication_date
                     >= articles[seq[j]].publication_date}

\* views.py article_list: the PUBLISHED articles, for any visitor, logged in
\* or not
article_list(u) ==
  /\ last' = [Request("article_list", u, NoPk, "200") EXCEPT
                !.data = Published]
  /\ Unchanged

\* views.py reader_home, lines 344-347: PUBLISHED and matching a subscription
subscribed_feed(u) ==
  LET subscribed_journalists == {s[2] : s \in {t \in jsubs : t[1] = u}}
      subscribed_publishers  == {s[2] : s \in {t \in psubs : t[1] = u}}
  IN {pk \in Published :
        \/ articles[pk].author \in subscribed_journalists
        \/ articles[pk].publisher \in subscribed_publishers}

\* the general feed without its exclude(pk__in=subscribed_feed)
general_feed_NoExclude(u) == Published

\* views.py reader_home, lines 349-352: the PUBLISHED articles that are not
\* in the subscribed feed
general_feed(u) == Published \ subscribed_feed(u)

\* views.py reader_home (reader only): article_feed is the subscribed feed
\* followed by the general feed
reader_home(u) ==
  LET op == "reader_home" IN
  IF ~is_reader(u)
    THEN /\ last' = Request(op, u, NoPk, "302_login")
         /\ Unchanged
  ELSE
    \E subscribed \in OrderByDateDesc(subscribed_feed(u)),
       general \in OrderByDateDesc(general_feed(u)) :
      /\ last' = [Request(op, u, NoPk, "200") EXCEPT
                    !.feed = subscribed \o general]
      /\ Unchanged

\* the status check dropped
ReaderMayRead_Always(article) == TRUE

\* views.py article_reader, line 390: only a PUBLISHED article is shown
ReaderMayRead(article) == article.status = "PUBLISHED"

\* views.py article_reader (reader only): the article and up to three more
\* PUBLISHED ones of its author
article_reader(u, pk) ==
  LET op == "article_reader" IN
  IF ~is_reader(u)
    THEN /\ last' = Request(op, u, NoPk, "302_login")
         /\ Unchanged
  ELSE IF pk \notin DOMAIN articles
    THEN /\ last' = Request(op, u, pk, "404")
         /\ Unchanged
  ELSE IF ~ReaderMayRead(articles[pk])
    THEN /\ last' = Request(op, u, pk,
                      CASE role[u] = "JOURNALIST" -> "302_journalist_home"
                        [] role[u] = "EDITOR" -> "302_editor_home"
                        [] OTHER -> "302_article_list")
         /\ Unchanged
  ELSE
    \E seq \in OrderByDateDesc({p \in Published \ {pk} :
                                  articles[p].author = articles[pk].author}) :
      LET more_articles == {seq[i] : i \in {j \in DOMAIN seq : j <= 3}} IN
      /\ last' = [Request(op, u, pk, "200") EXCEPT
                    !.data = {pk} \cup more_articles]
      /\ Unchanged

\* views.py journalist_profile (reader only): the lookup asks for
\* role='Journalist', the role column holds the keys of USER_ROLES
journalist_profile(u, pk) ==
  LET op == "journalist_profile" IN
  IF ~is_reader(u)
    THEN /\ last' = Request(op, u, NoPk, "302_login")
         /\ Unchanged
  ELSE IF pk \notin Users \/ role[pk] # "Journalist"
    THEN /\ last' = Request(op, u, NoPk, "404")
         /\ Unchanged
  ELSE /\ last' = [Request(op, u, NoPk, "200") EXCEPT
                     !.data = {p \in Published : articles[p].author = pk}]
       /\ Unchanged

\* views.py publisher_profile (reader only)
publisher_profile(u, pk) ==
  LET op == "publisher_profile" IN
  IF ~is_reader(u)
    THEN /\ last' = Request(op, u, NoPk, "302_login")
         /\ Unchanged
  ELSE IF pk \notin Publishers
    THEN /\ last' = Request(op, u, NoPk, "404")
         /\ Unchanged
  ELSE /\ last' = [Request(op, u, NoPk, "200") EXCEPT
                     !.data = {p \in Published : articles[p].publisher = pk}]
       /\ Unchanged

\* ------------------------------------------------------- registration
\* signals.py create_initial_groups (post_migrate): get_or_create of each
\* group of GROUPS_PERMISSIONS
create_initial_groups ==
  /\ groups' = groups \cup GROUPS_PERMISSIONS
  /\ last' = Request("create_initial_groups", None, NoPk, "none")
  /\ UNCHANGED <<articles, nextPk, jsubs, psubs, x_token, accounts>>

\* models.py assign_user_to_group (post_save of a created user): the group
\* named by instance.role is fetched, or created, and the user added to it.
\* db is the Group table and the new user's groups.
models_assign_user_to_group(db, role_name) ==
  [groups |-> db.groups \cup {role_name},
   user_groups |-> db.user_groups \cup {role_name}]

\* signals.py assign_user_to_group (post_save of a created user): the group
\* named by the role's display name is fetched; when it does not exist it is
\* created and the user added to it
assign_user_to_group(db, role_name_db) ==
  LET group_name == role_map[role_name_db] IN
  IF group_name \in db.groups
    THEN db
    ELSE [groups |-> db.groups \cup {group_name},
          user_groups |-> db.user_groups \cup {group_name}]

\* views.py register_user: a valid POST saves the new user with the role of
\* the registration page; both post_save receivers run, models.py's first
register_user(role_name, method, is_valid) ==
  LET op == "register_user" IN
  IF method # "POST" \/ ~is_valid
    THEN /\ last' = Request(op, None, NoPk, "200_form")
         /\ Unchanged
  ELSE
    LET pk  == Cardinality(DOMAIN accounts) + 1
        db  == [groups |-> groups, user_groups |-> {}]
        db1 == models_assign_user_to_group(db, role_name)
        db2 == assign_user_to_group(db1, role_name)
    IN /\ pk <= MaxUsers
       /\ accounts' = [p \in DOMAIN accounts \cup {pk} |->
                         IF p = pk
                           THEN [role |-> role_name, groups |-> db2.user_groups]
                           ELSE accounts[p]]
       /\ groups' = db2.groups
       /\ last' = Request(op, None, pk, "302_home")
       /\ UNCHANGED <<articles, nextPk, jsubs, psubs, x_token>>

\* ------------------------------------------------------ specifications
\* The article workflow: every request to the four article views, over a
\* database whose subscription tables are as Init left them.
Next ==
  \/ ArticleCreateEdit
  \/ ArticleEditor
  \/ ArticleDelete
  \/ ArticleJournalist

Spec == Init /\ [][Next]_vars

\* The subscription side: every request to the API, the subscription views
\* as one reader and one journalist call them, and articles that enter the
\* table by a journalist's POST to article/create/ and leave review by the
\* editor's publish.
Editors == {u \in Users : role[u] = "EDITOR"}

FeedRequesters == {"r1", "j1"}

FeedCreateInputs ==
  [methods |-> {"POST"}, actions |-> CreateEditActions,
   forms |-> {f \in FormInputs : f.title = "t1" /\ f.publisher = None}]

FeedEditorInputs ==
  [methods |-> {"POST"}, actions |-> {"publish"},
   forms |-> {f \in FormInputs : f.title = "t1"}]

FeedArticleCreate ==
  \E u \in Journalists : article_create_edit(u, NoPk, FeedCreateInputs)

FeedArticlePublish ==
  \E u \in Editors, pk \in Pks : article_editor(u, pk, FeedEditorInputs)

FeedToggleSubscription ==
  \E u \in FeedRequesters, method \in Methods, item_id \in ItemIds,
     item_type \in {"journalist", "publisher", "other"} :
    toggle_subscription(u, method, item_id, item_type)

FeedSubscribeJournalist ==
  \E u \in FeedRequesters, pk \in Users \cup Publishers :
    subscribe_journalist(u, pk)

FeedSubscribePublisher ==
  \E u \in FeedRequesters, pk \in Users \cup Publishers :
    subscribe_publisher(u, pk)

InitFeed ==
  /\ articles = [p \in {} |-> NewArticle("j1")]
  /\ nextPk = 1
  /\ jsubs = {}
  /\ psubs = {}
  /\ x_token = FALSE
  /\ groups = GROUPS_PERMISSIONS
  /\ accounts = << >>
  /\ last = Request("none", None, NoPk, "none")

NextFeed ==
  \/ FeedArticleCreate
  \/ FeedArticlePublish
  \/ FeedToggleSubscription
  \/ FeedSubscribeJournalist
  \/ FeedSubscribePublisher
  \/ ApiSubscribedArticles

SpecFeed == InitFeed /\ [][NextFeed]_vars

\* Saves that go to Article.save directly (the admin's article form,
\* Article.objects.create): any field values, next to the journalist's and
\* the editor's views.
DirectRows ==
  [title : {"t1"}, body : {"b1"}, author : Journalists,
   publisher : Publishers \cup {None}, editor : {None},
   status : STATUS_CHOICES, is_approved : BOOLEAN,
   publication_date : {NoDate} \cup Times]

direct_save(pk, row, now) ==
  LET key   == IF pk # NoPk THEN pk ELSE nextPk
      saved == Article_save(row, now)
  IN /\ pk = NoPk => nextPk <= MaxArticles
     /\ pk # NoPk => pk \in DOMAIN articles
     /\ articles' = Store(key, saved)
     /\ nextPk' = IF pk = NoPk THEN nextPk + 1 ELSE nextPk
     /\ last' = [Saved("Article.save", None, key, pk = NoPk, saved, None,
                       None) EXCEPT !.method = None]
     /\ UNCHANGED <<jsubs, psubs, x_token, groups, accounts>>

DirectSave ==
  \E pk \in Pks \cup {NoPk}, row \in DirectRows, now \in Times :
    direct_save(pk, row, now)

SaveCreateInputs ==
  [methods |-> {"POST"}, actions |-> CreateEditActions,
   forms |-> {f \in FormInputs : f.title = "t2" /\ f.publisher = None}]

SaveEditorInputs ==
  [methods |-> {"POST"}, actions |-> {"publish", "save"},
   forms |-> {f \in FormInputs : f.title = "t2"}]

SaveArticleCreateEdit ==
  \E u \in Journalists, pk \in Pks \cup {NoPk} :
    article_create_edit(u, pk, SaveCreateInputs)

SaveArticleEditor ==
  \E u \in Editors, pk \in Pks : article_editor(u, pk, SaveEditorInputs)

NextSave ==
  \/ DirectSave
  \/ SaveArticleCreateEdit
  \/ SaveArticleEditor

SpecSave == InitFeed /\ [][NextSave]_vars

\* The reader's side: every read a visitor can ask for, over articles that a
\* journalist's POST to article/create/ stores and the editor's publish
\* releases, and over the subscriptions the reader-only views toggle.
Visitors == FeedRequesters \cup {None}

ReadArticleList == \E u \in Visitors : article_list(u)

ReadReaderHome == \E u \in FeedRequesters : reader_home(u)

ReadArticleReader ==
  \E u \in FeedRequesters, pk \in Pks : article_reader(u, pk)

ReadJournalistProfile ==
  \E u \in FeedRequesters, pk \in Users : journalist_profile(u, pk)

ReadPublisherProfile ==
  \E u \in FeedRequesters, pk \in Publishers \cup {None} :
    publisher_profile(u, pk)

NextRead ==
  \/ FeedArticleCreate
  \/ FeedArticlePublish
  \/ FeedSubscribeJournalist
  \/ FeedSubscribePublisher
  \/ ReadArticleList
  \/ ReadReaderHome
  \/ ReadArticleReader
  \/ ReadJournalistProfile
  \/ ReadPublisherProfile
  \/ ApiSubscribedArticles

SpecRead == InitFeed /\ [][NextRead]_vars

\* Registration: users of the three roles register, before and after the
\* post_migrate handler has created the groups.
InitUsers ==
  /\ articles = [p \in {} |-> NewArticle("j1")]
  /\ nextPk = 1
  /\ jsubs = {}
  /\ psubs = {}
  /\ x_token = FALSE
  /\ groups \in SUBSET GROUPS_PERMISSIONS
  /\ accounts = << >>
  /\ last = Request("none", None, NoPk, "none")

CreateInitialGroups == create_initial_groups

RegisterUser ==
  \E role_name \in USER_ROLES, method \in Methods, is_valid \in BOOLEAN :
    register_user(role_name, method, is_valid)

NextUsers ==
  \/ CreateInitialGroups
  \/ RegisterUser

SpecUsers == InitUsers /\ [][NextUsers]_vars

\* ================================================================ claims
Stored == DOMAIN articles

\* the status a stored article has, "NEW" for a pk not in the table
StatusOf(table, pk) ==
  IF pk \in DOMAIN table THEN table[pk].status ELSE "NEW"

\* C1 as stated: through journalist and editor operations an article becomes
\* AWAITING_REVIEW only from DRAFT, and becomes PUBLISHED only from
\* AWAITING_REVIEW, never from DRAFT or at creation.
C1_StrictWorkflow ==
  [][\A pk \in Pks :
       LET old == StatusOf(articles, pk)
           new == StatusOf(articles', pk)
       IN /\ (new = "AWAITING_REVIEW" /\ old # new) => old = "DRAFT"
          /\ (new = "PUBLISHED" /\ old # new) => old = "AWAITING_REVIEW"
    ]_vars

\* C1 amended: an article's status changes only along these steps.  It is
\* created DRAFT, AWAITING_REVIEW or PUBLISHED by its author's
\* article_create_edit; a DRAFT becomes AWAITING_REVIEW or PUBLISHED by its
\* author's article_create_edit; an AWAITING_REVIEW article becomes
\* PUBLISHED by article_editor.  A publication that does not pass through
\* AWAITING_REVIEW is the author's independent publish and leaves the article
\* without publisher.  No step sets REJECTED or returns an article to DRAFT.
C1_Workflow ==
  [][\A pk \in Pks :
       LET old == StatusOf(articles, pk)
           new == StatusOf(articles', pk)
       IN (new # "NEW" /\ old # new) =>
            \/ /\ old \in {"NEW", "DRAFT"}
               /\ new = "AWAITING_REVIEW" \/ (old = "NEW" /\ new = "DRAFT")
               /\ last'.op = "article_create_edit"
               /\ last'.user = articles'[pk].author
            \/ /\ old \in {"NEW", "DRAFT"}
               /\ new = "PUBLISHED"
               /\ last'.op = "article_create_edit"
               /\ last'.action = "publish_independent"
               /\ last'.user = articles'[pk].author
               /\ articles'[pk].publisher = None
            \/ /\ old = "AWAITING_REVIEW"
               /\ new = "PUBLISHED"
               /\ last'.op = "article_editor"
               /\ last'.action = "publish"
    ]_vars

\* an editor's publish has just moved a reviewed article to PUBLISHED
C1_Witness ==
  /\ last.op = "article_editor"
  /\ last.action = "publish"
  /\ last.pk \in Stored
  /\ articles[last.pk].status = "PUBLISHED"
  /\ articles[last.pk].editor = last.user

\* C2: whenever a request persists an article with status PUBLISHED, the
\* notification fan-out (subscriber emails and social post) runs for it.
C2_FanoutOnPublish ==
  (last.saved /\ articles[last.pk].status = "PUBLISHED") => last.signal.ran

\* C3: the subscription API feed of an authenticated user is exactly the set
\* of PUBLISHED articles whose author is a journalist the user subscribes to
\* or whose publisher is a publisher the user subscribes to.
C3_ApiFeedExact ==
  (last.op = "api_subscribed_articles" /\ last.resp = "200") =>
    last.data =
      {pk \in Stored :
         /\ articles[pk].status = "PUBLISHED"
         /\ \/ <<last.user, articles[pk].author>> \in jsubs
            \/ <<last.user, articles[pk].publisher>> \in psubs}

\* the API answered with one article while another PUBLISHED one, matching
\* neither subscription, stayed out
C3_Witness ==
  /\ last.op = "api_subscribed_articles"
  /\ last.resp = "200"
  /\ last.data # {}
  /\ \E pk \in Stored \ last.data : articles[pk].status = "PUBLISHED"

\* C4: a request to the subscription API without valid credentials is
\* answered 401 and carries no article data, whatever is stored.
C4_Unauthenticated401 ==
  (last.op = "api_subscribed_articles" /\ last.user = None) =>
    (last.resp = "401" /\ last.data = {})

\* the API refused a request while published articles and subscriptions exist
C4_Witness ==
  /\ last.op = "api_subscribed_articles"
  /\ last.resp = "401"
  /\ \E pk \in Stored : articles[pk].status = "PUBLISHED"
  /\ jsubs # {}
  /\ psubs # {}

\* C5: every stored article has is_approved true exactly when its status is
\* PUBLISHED.
C5_ApprovedIffPublished ==
  \A pk \in Stored :
    articles[pk].is_approved <=> (articles[pk].status = "PUBLISHED")

\* a request has just saved a PUBLISHED, approved article next to an
\* unapproved one that is not PUBLISHED
C5_Witness ==
  /\ last.saved
  /\ articles[last.pk].status = "PUBLISHED"
  /\ articles[last.pk].is_approved
  /\ \E pk \in Stored :
       articles[pk].status # "PUBLISHED" /\ ~articles[pk].is_approved

\* C8: article_create_edit on an existing article changes it only if the
\* requester is its author and its status is DRAFT; a non-author is answered
\* with the redirect for non-authors, the author of an article that is not a
\* DRAFT with the redirect for finalized articles, and in both cases the
\* table is as it was.  No request to the view changes or removes any other
\* stored article.
C8_EditOnlyOwnDraft ==
  [][last'.op = "article_create_edit" =>
       /\ \A pk \in Stored :
            (pk \notin DOMAIN articles' \/ articles'[pk] # articles[pk]) =>
              /\ pk = last'.pk
              /\ articles[pk].author = last'.user
              /\ articles[pk].status = "DRAFT"
       /\ last'.pk \in Stored =>
            LET a == articles[last'.pk] IN
            /\ a.author # last'.user =>
                 (last'.resp = "302_not_author" /\ articles' = articles)
            /\ (a.author = last'.user /\ a.status # "DRAFT") =>
                 (last'.resp = "302_forbidden_status" /\ articles' = articles)
    ]_vars

\* the author asked to edit an article of theirs that is PUBLISHED
C8_Witness ==
  /\ last.op = "article_create_edit"
  /\ last.resp = "302_forbidden_status"
  /\ articles[last.pk].author = last.user
  /\ articles[last.pk].status = "PUBLISHED"

\* C9: article_editor changes or removes an article only for an editor
\* affiliated with the article's publisher; an editor's request for an
\* article whose publisher (none included) is not one of theirs is answered
\* 403 and leaves the table as it was, and only such a request is answered 403.
C9_EditorOnlyAffiliated ==
  [][last'.op = "article_editor" =>
       /\ \A pk \in Stored :
            (pk \notin DOMAIN articles' \/ articles'[pk] # articles[pk]) =>
              /\ pk = last'.pk
              /\ is_editor(last'.user)
              /\ articles[pk].publisher \in publishers[last'.user]
       /\ last'.pk \in Stored =>
            IF articles[last'.pk].publisher \in publishers[last'.user]
              THEN last'.resp # "403"
              ELSE last'.resp = "403" /\ articles' = articles
       /\ last'.resp = "403" => last'.pk \in Stored
    ]_vars

\* an editor was refused an article that has no publisher
C9_Witness ==
  /\ last.op = "article_editor"
  /\ last.resp = "403"
  /\ articles[last.pk].publisher = None

\* C10: a submit-for-review that saves the article leaves it AWAITING_REVIEW
\* with the selected publisher when the journalist is affiliated with that
\* publisher, and DRAFT with no publisher when none or an unaffiliated one
\* was selected.
C10_SubmitForReview ==
  (last.op = "article_create_edit" /\ last.action = "submit_publisher") =>
    LET a == articles[last.pk] IN
    IF last.selected \in publishers[last.user]
      THEN a.status = "AWAITING_REVIEW" /\ a.publisher = last.selected
      ELSE a.status = "DRAFT" /\ a.publisher = None

\* a journalist submitted to a publisher they are not affiliated with
C10_Witness ==
  /\ last.op = "article_create_edit"
  /\ last.action = "submit_publisher"
  /\ last.selected \in Publishers \ publishers[last.user]
  /\ articles[last.pk].status = "DRAFT"

\* C6: every stored article whose status is PUBLISHED has a publication
\* date, whichever save published it.
C6_PublishedHasDate ==
  \A pk \in Stored :
    articles[pk].status = "PUBLISHED" =>
      articles[pk].publication_date # NoDate

\* a PUBLISHED article stored by a direct save next to one a view published
C6_Witness ==
  /\ last.op = "Article.save"
  /\ articles[last.pk].status = "PUBLISHED"
  /\ \E pk \in Stored \ {last.pk} :
       /\ articles[pk].status = "PUBLISHED"
       /\ articles[pk].title = "t2"

\* the rows one POST of an editor to article_editor can leave in place of row
EditorOutcomes(row) ==
  {Article_save(EditorRow(u, row, form, action, now), now) :
     <<u, form, action, now>> \in
       {x \in Editors \X FormInputs \X {"publish", "save"} \X Times :
          /\ EditorMayReview(x[1], row)
          /\ ArticleForm_is_valid(x[2], row)
          /\ EditorRow(x[1], row, x[2], x[3], x[4]).publisher # None
               \/ x[3] # "publish"}}

\* the rows a sequence of editor operations can leave in place of a row of S
RECURSIVE EditorReach(_)
EditorReach(S) ==
  LET T == S \cup UNION {EditorOutcomes(r) : r \in S}
  IN IF T = S THEN S ELSE EditorReach(T)

\* C7: from an article in AWAITING_REVIEW that an editor may review there is
\* a sequence of editor operations that leaves it PUBLISHED and a sequence
\* that leaves it REJECTED.
C7_BothOutcomesReachable ==
  \A pk \in Stored :
    (/\ articles[pk].status = "AWAITING_REVIEW"
     /\ \E u \in Editors : EditorMayReview(u, articles[pk])) =>
      /\ \E r \in EditorReach({articles[pk]}) : r.status = "PUBLISHED"
      /\ \E r \in EditorReach({articles[pk]}) : r.status = "REJECTED"

\* what holds of C7: the PUBLISHED outcome is reachable, and no journalist or
\* editor operation ever stores a REJECTED article
C7_PublishedReachable ==
  \A pk \in Stored :
    (/\ articles[pk].status = "AWAITING_REVIEW"
     /\ \E u \in Editors : EditorMayReview(u, articles[pk])) =>
      \E r \in EditorReach({articles[pk]}) : r.status = "PUBLISHED"

C7_NeverRejected ==
  \A pk \in Stored : articles[pk].status # "REJECTED"

\* C11: a subscription request (subscribe_journalist, subscribe_publisher,
\* toggle_subscription) made by a user whose role is not READER leaves the
\* journalist- and publisher-subscription tables unchanged.
C11_OnlyReadersSubscribe ==
  [][(/\ last'.op \in {"subscribe_journalist", "subscribe_publisher",
                       "toggle_subscription"}
      /\ role[last'.user] # "READER") =>
       (jsubs' = jsubs /\ psubs' = psubs)
    ]_vars

\* what holds of C11: the two reader-only views change the tables for
\* readers alone
C11_ReaderOnlyViews ==
  [][(/\ last'.op \in {"subscribe_journalist", "subscribe_publisher"}
      /\ role[last'.user] # "READER") =>
       (jsubs' = jsubs /\ psubs' = psubs /\ last'.resp = "302_login")
    ]_vars

\* the addresses of the readers subscribed to the article's author or to the
\* article's publisher
SubscriberEmails(article) ==
  {email[s[1]] : s \in {t \in jsubs : t[2] = article.author}}
    \cup {email[s[1]] : s \in {t \in psubs : t[2] = article.publisher}}

\* C12: the email recipients of one notification fan-out are exactly the
\* addresses of the readers subscribed to the article's author or to the
\* article's publisher, each once; a reader subscribed to neither gets none.
C12_RecipientsExact ==
  last.signal.ran =>
    last.signal.emails = SubscriberEmails(articles[last.pk])

\* what holds of C12: a fan-out that does not raise while the message is
\* built mails exactly those addresses
C12_RecipientsWhenSent ==
  (last.signal.ran /\ (articles[last.pk].publisher # None
                         \/ SubscriberEmails(articles[last.pk]) = {})) =>
    last.signal.emails = SubscriberEmails(articles[last.pk])

\* the articles a feed lists, and how often it lists one
FeedPks(feed) == {feed[i] : i \in DOMAIN feed}
Occurrences(feed, pk) == Cardinality({i \in DOMAIN feed : feed[i] = pk})

\* the article matches one of the reader's subscriptions
MatchesSubscription(u, pk) ==
  \/ <<u, articles[pk].author>> \in jsubs
  \/ <<u, articles[pk].publisher>> \in psubs

\* C13: the reader home feed lists every PUBLISHED article exactly once and
\* no other article, the articles matching one of the reader's journalist or
\* publisher subscriptions before all the remaining ones.
C13_HomeFeedPartition ==
  (last.op = "reader_home" /\ last.resp = "200") =>
    /\ FeedPks(last.feed) =
         {pk \in Stored : articles[pk].status = "PUBLISHED"}
    /\ \A pk \in FeedPks(last.feed) : Occurrences(last.feed, pk) = 1
    /\ \A i, j \in DOMAIN last.feed :
         (/\ MatchesSubscription(last.user, last.feed[j])
          /\ ~MatchesSubscription(last.user, last.feed[i])) => j < i

\* the home feed listed a subscribed article, then one that matches no
\* subscription
C13_Witness ==
  /\ last.op = "reader_home"
  /\ last.resp = "200"
  /\ Len(last.feed) = 2
  /\ MatchesSubscription(last.user, last.feed[1])
  /\ ~MatchesSubscription(last.user, last.feed[2])

\* the operations that show articles to readers and other visitors
ReaderOps ==
  {"article_list", "reader_home", "article_reader", "journalist_profile",
   "publisher_profile", "api_subscribed_articles"}

\* the articles the last response carries
Shown == last.data \cup FeedPks(last.feed)

Touched == {pk \in Stored :
              pk \notin DOMAIN articles' \/ articles'[pk] # articles[pk]}

\* C15: article_delete removes an article only when the request is a POST,
\* the requester is the article's author or an EDITOR affiliated with the
\* article's publisher, and the article is DRAFT or AWAITING_REVIEW; in
\* every other case every article remains stored and unchanged.
C15_DeleteGuarded ==
  [][last'.op = "article_delete" =>
       /\ DOMAIN articles' \subseteq Stored
       /\ \A pk \in Touched :
            /\ pk = last'.pk
            /\ pk \notin DOMAIN articles'
            /\ last'.method = "POST"
            /\ \/ articles[pk].author = last'.user
               \/ /\ role[last'.user] = "EDITOR"
                  /\ articles[pk].publisher \in publishers[last'.user]
            /\ articles[pk].status \in {"DRAFT", "AWAITING_REVIEW"}
    ]_vars

\* the author's POST to article_delete for a PUBLISHED article of theirs was
\* turned away and the article is still stored
C15_Witness ==
  /\ last.op = "article_delete"
  /\ last.resp = "302_finalized"
  /\ last.pk \in Stored
  /\ articles[last.pk].author = last.user
  /\ articles[last.pk].status = "PUBLISHED"

\* C16: no journalist or editor operation (article_delete,
\* article_journalist, article_editor) removes an article whose status is
\* PUBLISHED or REJECTED.
C16_FinalizedNotDeleted ==
  [][\A pk \in Stored :
       articles[pk].status \in {"PUBLISHED", "REJECTED"} =>
         pk \in DOMAIN articles'
    ]_vars

\* what holds of C16: a finalized article is never removed by article_delete;
\* it is removed by its author's delete in article_journalist or by the
\* delete of an editor of its publisher in article_editor
C16_FinalizedDeletedBy ==
  [][\A pk \in Stored :
       (/\ articles[pk].status \in {"PUBLISHED", "REJECTED"}
        /\ pk \notin DOMAIN articles') =>
         \/ /\ last'.op = "article_journalist"
            /\ last'.user = articles[pk].author
         \/ /\ last'.op = "article_editor"
            /\ articles[pk].publisher \in publishers[last'.user]
    ]_vars

\* C17: every user created with role READER, JOURNALIST or EDITOR is a
\* member of the group named by the role's display name (Reader, Journalist,
\* Editor), whether or not that group existed before the user was created.
C17_MemberOfRoleGroup ==
  \A u \in DOMAIN accounts :
    role_map[accounts[u].role] \in accounts[u].groups

\* what holds of C17: a new user joins the group named by the role key, and
\* the group named by the display name only when registration had to create
\* that group
C17_MemberOnlyIfCreated ==
  [][last'.op = "register_user" /\ last'.pk # NoPk =>
       LET new == accounts'[last'.pk] IN
       /\ new.role \in new.groups
       /\ role_map[new.role] \in new.groups <=> role_map[new.role] \notin groups
    ]_vars

====
